---- MODULE Spec2Model ----
(***************************************************************************)
(* Week planner of the AI Food Planner.                                    *)
(*                                                                         *)
(* The planner page (frontend/src/pages/WeekPlanner.tsx) keeps a local     *)
(* copy of the week plan, currentPlan, and mutates it from asynchronous    *)
(* handlers.  Each handler closes over the currentPlan of the render in    *)
(* which it was started, awaits one HTTP request and then writes           *)
(* currentPlan from that closure.  The draft-plan query of                 *)
(* hooks/useWeekPlans.ts refetches after every successful mutation and an  *)
(* effect copies a changed draft into currentPlan.                         *)
(*                                                                         *)
(* The backend that answers the requests is not part of the sources; it is *)
(* modelled from sections 4.6, 4.7 and 5 of the specification: every       *)
(* operation is one all-or-nothing update of the store.                    *)
(*                                                                         *)
(* Nutrient quantities are floating-point numbers in the code.  They are   *)
(* modelled as integers counting hundredths, so that food.calories *       *)
(* (amount / 100) is exact.                                                *)
(***************************************************************************)
EXTENDS Integers, Sequences, FiniteSets, Bags, TLC

\* ------------------------------------------------------------------ bounds
\* number of handlers that may be awaiting a response at the same time
MaxInFlight == 2
\* number of handler invocations in one run
MaxOps == 2
\* number of foods the suggestion service returns for one regeneration
MaxGen == 1
\* number of days in an AI proposal
MaxAiDays == 2

\* ------------------------------------------------------------ input values
MEAL_TYPES == <<"breakfast", "lunch", "dinner", "snack">>

\* DAY_NAMES has seven entries
NumDays == 7

DayIndices == 0..(NumDays - 1)

\* the days and meal types the user acts on
DayChoices == {0, 1}

MealTypeChoices == {"breakfast", "lunch"}

\* what the add-food dialog is opened for and filled with: a searched food
\* by weight, a recipe by servings, and a searched food whose amount field
\* was cleared (parseFloat(e.target.value) || 0)
AddChoices ==
  { [food |-> [name |-> "oats", calories |-> 4, protein |-> 1, carbs |-> 2, fat |-> 1],
     amount |-> 150, unit |-> "g", dayIndex |-> 0, mealType |-> "breakfast"],
    [food |-> [name |-> "stew", calories |-> 3, protein |-> 2, carbs |-> 1, fat |-> 0],
     amount |-> 2, unit |-> "servings", dayIndex |-> 1, mealType |-> "lunch"],
    [food |-> [name |-> "oats", calories |-> 4, protein |-> 1, carbs |-> 2, fat |-> 1],
     amount |-> 0, unit |-> "g", dayIndex |-> 0, mealType |-> "breakfast"] }

\* nutrient vectors the suggestion service estimates (hundredths)
SuggestionVecs ==
  { [calories |-> 500, protein |-> 200, carbs |-> 100, fat |-> 100] }

\* ------------------------------------------------------- nutrient vectors
ZeroVec == [calories |-> 0, protein |-> 0, carbs |-> 0, fat |-> 0]

VecAdd(a, b) ==
  [calories |-> a.calories + b.calories, protein |-> a.protein + b.protein,
   carbs |-> a.carbs + b.carbs, fat |-> a.fat + b.fat]

VecSub(a, b) ==
  [calories |-> a.calories - b.calories, protein |-> a.protein - b.protein,
   carbs |-> a.carbs - b.carbs, fat |-> a.fat - b.fat]

\* the nutrient fields of a WeekPlanMeal
MealVec(m) ==
  [calories |-> m.calories, protein |-> m.protein, carbs |-> m.carbs, fat |-> m.fat]

\* the denormalized totals of a WeekPlan
PlanTotals(p) ==
  [calories |-> p.total_calories, protein |-> p.total_protein,
   carbs |-> p.total_carbs, fat |-> p.total_fat]

WithTotals(p, v) ==
  [p EXCEPT !.total_calories = v.calories, !.total_protein = v.protein,
            !.total_carbs = v.carbs, !.total_fat = v.fat]

RECURSIVE SumMeals(_)
SumMeals(ms) ==
  IF ms = <<>> THEN ZeroVec ELSE VecAdd(MealVec(Head(ms)), SumMeals(Tail(ms)))

MealIds(ms) == {ms[i].id : i \in 1..Len(ms)}

\* ------------------------------------------------------------------ state
\* null / no value
NoPlan == [id |-> 0]

\* data of a query that never succeeded
Undefined == [id |-> -1]

VARIABLES
  srvPlans,        \* the store: the week plans that exist on the backend
  nextPlanId,      \* the store's next plan id
  nextMealId,      \* the store's next meal id
  currentPlan,     \* useState currentPlan of the planner page
  draftPlan,       \* data of the draft-plan query
  draftFetch,      \* the draft-plan query's fetch
  reqs,            \* the bag of handlers awaiting a response, with their closures
  regeneratingDay, \* useState regeneratingDay
  regeneratingMeal,\* useState regeneratingMeal
  lastAdded,       \* history: the last added meal and the totals before it
  ops,             \* history: the number of handlers started
  formData,        \* useState formData of the recipe creator
  selectedIngredients, \* useState selectedIngredients of the recipe creator
  showRecipeCreator,   \* useState showRecipeCreator of the page around it
  editingRecipe,   \* useState editingRecipe of the recipes page
  recipeReq,       \* the request handleSubmit awaits, with its recipeData
  srvRecipes,      \* the store: the recipes that exist on the backend
  mealPlan,        \* useState mealPlan of the weekly-plan page
  weekLoad,        \* the bag of requests the weekly-plan page awaits
  currentWeek,     \* useState currentWeek, in weeks from the week at mount
  loading,         \* useState loading of the weekly-plan page
  srvEntries,      \* the store: the entries of the meal plan of week 0
  srvMeals,        \* the store: the diary's meals
  diaryReq,        \* the request handleAddFood awaits
  diaryOps         \* history: the number of handleAddFood calls

vars == <<srvPlans, nextPlanId, nextMealId, currentPlan, draftPlan, draftFetch,
          reqs, regeneratingDay, regeneratingMeal, lastAdded, ops,
          formData, selectedIngredients, showRecipeCreator, editingRecipe,
          recipeReq, srvRecipes, mealPlan, weekLoad, currentWeek, loading,
          srvEntries, srvMeals, diaryReq, diaryOps>>

\* the state of the diary's add-food dialog and of the meals it stores
diaryVars == <<srvMeals, diaryReq, diaryOps>>

\* the state of the planner page and of its backend
plannerPageVars == <<srvPlans, nextPlanId, nextMealId, currentPlan, draftPlan,
                     draftFetch, reqs, regeneratingDay, regeneratingMeal, lastAdded, ops>>

\* the state of the frontend application
plannerVars == <<plannerPageVars, diaryVars>>

\* the weeks shown, the loading flag and the stored entries of the
\* weekly-plan page
weekVars == <<currentWeek, loading, srvEntries>>

\* the state of the weekly-plan page and of the recipe store
mealPlanVars == <<showRecipeCreator, editingRecipe, recipeReq, srvRecipes, mealPlan,
                  weekLoad, weekVars>>

\* the state of the earlier Frontend application
recipeVars == <<formData, selectedIngredients, mealPlanVars>>

\* no recipe is being edited
NoRecipe == [id |-> 0]

\* the weekly-plan page has no plan yet
NoMealPlan == [id |-> 0, entries |-> <<>>]

\* the diary's add-food dialog is not in use
DiaryClosed ==
  /\ srvMeals = {}
  /\ diaryReq = [st |-> "idle"]
  /\ diaryOps = 0

\* the earlier Frontend application is not open
RecipesClosed ==
  /\ formData = [servings |-> <<"1">>]
  /\ selectedIngredients = <<>>
  /\ showRecipeCreator = FALSE
  /\ editingRecipe = NoRecipe
  /\ recipeReq = [st |-> "idle"]
  /\ srvRecipes = {}
  /\ mealPlan = NoMealPlan
  /\ weekLoad = EmptyBag
  /\ currentWeek = 0
  /\ loading = FALSE
  /\ srvEntries = <<>>

srvVars == <<srvPlans, nextPlanId, nextMealId>>

NoDay == -1

NoMeal == "null"

\* A draft kept by the store from an earlier session: two meals on day 0.
SeedPlan ==
  [id |-> 1, status |-> "draft",
   meals |-> << [id |-> 1, day_index |-> 0, meal_type |-> "breakfast",
                 calories |-> 600, protein |-> 150, carbs |-> 300, fat |-> 150],
                [id |-> 2, day_index |-> 0, meal_type |-> "lunch",
                 calories |-> 600, protein |-> 400, carbs |-> 200, fat |-> 0] >>,
   total_calories |-> 1200, total_protein |-> 550, total_carbs |-> 500,
   total_fat |-> 150]

\* The page has mounted and the draft query is fetching.  The store is empty
\* or holds the draft of an earlier session.
Init ==
  /\ \/ srvPlans = {} /\ nextPlanId = 1 /\ nextMealId = 1
     \/ srvPlans = {SeedPlan} /\ nextPlanId = 2 /\ nextMealId = 3
  /\ currentPlan = NoPlan
  /\ draftPlan = Undefined
  /\ draftFetch = [st |-> "sent"]
  /\ reqs = EmptyBag
  /\ regeneratingDay = NoDay
  /\ regeneratingMeal = NoMeal
  /\ lastAdded = [id |-> 0]
  /\ ops = 0
  /\ RecipesClosed
  /\ DiaryClosed

\* ------------------------------------------------------------ the backend
\* The store and its operations, after sections 4.6, 4.7 and 5 of the
\* specification: each operation is one all-or-nothing update.

SrvHas(id) == \E p \in srvPlans : p.id = id

SrvGet(id) == CHOOSE p \in srvPlans : p.id = id

SrvPut(p) == {q \in srvPlans : q.id # p.id} \cup {p}

SrvDrafts == {p \in srvPlans : p.status = "draft"}

\* GET /week-plans/draft
SrvGetDraft == IF SrvDrafts = {} THEN NoPlan ELSE CHOOSE p \in SrvDrafts : TRUE

NewMeal(id, dayIndex, mealType, v) ==
  [id |-> id, day_index |-> dayIndex, meal_type |-> mealType,
   calories |-> v.calories, protein |-> v.protein, carbs |-> v.carbs, fat |-> v.fat]

\* addMeal: append the entry, totals += entry.nutrients
SrvAddMeal(p, m) ==
  WithTotals([p EXCEPT !.meals = Append(@, m)], VecAdd(PlanTotals(p), MealVec(m)))

\* removeMeal: remove the entry, totals -= entry.nutrients
SrvRemoveMeal(p, mealId) ==
  LET gone == SelectSeq(p.meals, LAMBDA m : m.id = mealId)
  IN WithTotals([p EXCEPT !.meals = SelectSeq(@, LAMBDA m : m.id # mealId)],
                VecSub(PlanTotals(p), SumMeals(gone)))

\* clearDay: remove the day's entries, totals -= their sum, in one batch
SrvClearDay(p, dayIndex) ==
  LET gone == SelectSeq(p.meals, LAMBDA m : m.day_index = dayIndex)
  IN WithTotals([p EXCEPT !.meals = SelectSeq(@, LAMBDA m : m.day_index # dayIndex)],
                VecSub(PlanTotals(p), SumMeals(gone)))

\* the entries a regeneration replaces: those of (day_index, meal_type), or
\* of the whole day when no meal_type is given
RegenMatches(m, dayIndex, mealType) ==
  /\ m.day_index = dayIndex
  /\ mealType # NoMeal => m.meal_type = mealType

\* regenerateDay: totals - sum(old removed) + sum(new added), applied at once
SrvRegenerateDay(p, dayIndex, mealType, fresh) ==
  LET gone == SelectSeq(p.meals, LAMBDA m : RegenMatches(m, dayIndex, mealType))
      kept == SelectSeq(p.meals, LAMBDA m : ~RegenMatches(m, dayIndex, mealType))
  IN WithTotals([p EXCEPT !.meals = kept \o fresh],
                VecAdd(VecSub(PlanTotals(p), SumMeals(gone)), SumMeals(fresh)))

EmptyPlan(id, status) ==
  [id |-> id, status |-> status, meals |-> <<>>,
   total_calories |-> 0, total_protein |-> 0, total_carbs |-> 0, total_fat |-> 0]

\* mutant: the store accepts a draft while it holds one
SrvMayCreateAlways(status) == TRUE

\* "exactly one plan may be in draft status at a time per owner", enforced
\* by the store as a uniqueness constraint (section 9)
SrvMayCreate(status) == status = "draft" => SrvDrafts = {}

\* createFromAiPlan: one entry per proposed day carrying the day's estimate;
\* totals are the sum of the per-day estimates
SrvAiMeals(days, firstId) ==
  [i \in 1..Len(days) |->
     NewMeal(firstId + i - 1, i - 1, "breakfast",
             [calories |-> days[i].estimated_calories, protein |-> days[i].estimated_protein,
              carbs |-> days[i].estimated_carbs, fat |-> days[i].estimated_fat])]

\* mutant: the totals of the new plan are left at zero
SrvCreateFromAiPlanZeroTotals(id, days, firstId) ==
  [EmptyPlan(id, "draft") EXCEPT !.meals = SrvAiMeals(days, firstId)]

SrvCreateFromAiPlan(id, days, firstId) ==
  LET ms == SrvAiMeals(days, firstId)
  IN WithTotals([EmptyPlan(id, "draft") EXCEPT !.meals = ms], SumMeals(ms))

\* ------------------------------------------------------- the planner page
\* isLoading of the draft query: fetching with no data yet; the page then
\* renders only a spinner
loadingDraft == draftFetch.st # "idle" /\ draftPlan = Undefined

Pending(kind) == \E r \in BagToSet(reqs) : r.kind = kind

HasFreeSlot == ops < MaxOps /\ BagCardinality(reqs) < MaxInFlight

\* a handler starts awaiting its request
Send(r) == reqs' = reqs (+) SetToBag({r}) /\ ops' = ops + 1

\* a handler goes on from r to r2
Replace(r, r2) == reqs' = (reqs (-) SetToBag({r})) (+) SetToBag({r2})

\* a handler returns
Drop(r) == reqs' = reqs (-) SetToBag({r})

\* queryClient.invalidateQueries({ queryKey: ['week-plans'] }): the draft
\* query is refetched; a fetch already under way is cancelled
InvalidateWeekPlans == draftFetch' = [st |-> "sent"]

getMealsFor(dayIndex, mealType) ==
  IF currentPlan = NoPlan THEN <<>>
  ELSE SelectSeq(currentPlan.meals,
                 LAMBDA m : m.day_index = dayIndex /\ m.meal_type = mealType)

getDayTotals(dayIndex) ==
  IF currentPlan = NoPlan THEN ZeroVec
  ELSE SumMeals(SelectSeq(currentPlan.meals, LAMBDA m : m.day_index = dayIndex))

\* currentPlan once getMealsFor has run: filter returns a new array and
\* leaves the array it is called on
PlanAfterGetMealsFor(plan, dayIndex, mealType) == plan

\* mutant: the day's meals are cut out of the plan's own array
PlanAfterGetDayTotalsInPlace(plan, dayIndex) ==
  [plan EXCEPT !.meals = SelectSeq(plan.meals, LAMBDA m : m.day_index = dayIndex)]

\* currentPlan once getDayTotals has run: filter and reduce build new
\* values; nothing is assigned to the plan and no state setter is called
PlanAfterGetDayTotals(plan, dayIndex) == plan

\* the grid cell shows a spinner instead of its meals
isMealRegenerating(dayIndex, mealType) ==
  regeneratingDay = dayIndex /\ regeneratingMeal = mealType

\* the day's regenerate button is disabled
isRegenerating(dayIndex) == regeneratingDay = dayIndex /\ regeneratingMeal = NoMeal

\* mutant: every unit is taken as a count of servings
FactorAlwaysAmount(amount, unit) == amount * 100

\* food.calories * factor with factor = unit === 'g' ? amount / 100 : amount,
\* in hundredths
Factor(amount, unit) == IF unit = "g" THEN amount ELSE amount * 100

ScaledVec(food, amount, unit) ==
  [calories |-> food.calories * Factor(amount, unit),
   protein |-> food.protein * Factor(amount, unit),
   carbs |-> food.carbs * Factor(amount, unit),
   fat |-> food.fat * Factor(amount, unit)]

\* ---- handleAddFoodToWeekPlan
\* The dialog's Add button is disabled while isAdding, so one add is under
\* way at a time.  The slot (c.dayIndex, c.mealType) is the one the dialog
\* was opened for.
HandleAddFoodToWeekPlan(c) ==
  /\ ~loadingDraft
  /\ currentPlan # NoPlan
  /\ ~Pending("addMeal")
  /\ HasFreeSlot
  /\ Send([kind |-> "addMeal", phase |-> "sent", plan |-> currentPlan,
           planId |-> currentPlan.id, dayIndex |-> c.dayIndex, mealType |-> c.mealType,
           food |-> c.food, amount |-> c.amount, unit |-> c.unit,
           data |-> ScaledVec(c.food, c.amount, c.unit)])
  /\ UNCHANGED <<srvVars, currentPlan, draftPlan, draftFetch, regeneratingDay,
                 regeneratingMeal, lastAdded>>

\* after the await: append the returned meal to the closure's meals and add
\* its nutrients to the closure's totals
PlanAfterAdd(plan, newMeal) ==
  WithTotals([plan EXCEPT !.meals = Append(@, newMeal)],
             VecAdd(PlanTotals(plan), MealVec(newMeal)))

HandleAddFoodToWeekPlanThen(r) ==
  /\ r.kind = "addMeal" /\ r.phase = "ok"
  /\ InvalidateWeekPlans
  /\ currentPlan' = PlanAfterAdd(r.plan, r.resp)
  /\ lastAdded' = IF r.plan = currentPlan
                  THEN [id |-> r.resp.id, before |-> PlanTotals(currentPlan)]
                  ELSE [id |-> 0]
  /\ Drop(r)
  /\ UNCHANGED <<srvVars, draftPlan, regeneratingDay, regeneratingMeal, ops>>

\* ---- handleRemoveMeal
\* The remove button belongs to a meal shown in the grid.
HandleRemoveMeal(mealId) ==
  /\ ~loadingDraft
  /\ currentPlan # NoPlan
  /\ \E i \in 1..Len(currentPlan.meals) :
        /\ currentPlan.meals[i].id = mealId
        /\ ~isMealRegenerating(currentPlan.meals[i].day_index, currentPlan.meals[i].meal_type)
  /\ HasFreeSlot
  /\ Send([kind |-> "removeMeal", phase |-> "sent", plan |-> currentPlan,
           planId |-> currentPlan.id, mealId |-> mealId])
  /\ UNCHANGED <<srvVars, currentPlan, draftPlan, draftFetch, regeneratingDay,
                 regeneratingMeal, lastAdded>>

\* after the await: the closure's plan with the meal filtered out
PlanAfterRemove(plan, mealId) ==
  [plan EXCEPT !.meals = SelectSeq(@, LAMBDA m : m.id # mealId)]

HandleRemoveMealThen(r) ==
  /\ r.kind = "removeMeal" /\ r.phase = "ok"
  /\ InvalidateWeekPlans
  /\ currentPlan' = PlanAfterRemove(r.plan, r.mealId)
  /\ Drop(r)
  /\ UNCHANGED <<srvVars, draftPlan, regeneratingDay, regeneratingMeal, lastAdded, ops>>

\* ---- handleClearDay
\* The day's clear button is disabled while clearDay.isPending.
HandleClearDay(dayIndex) ==
  /\ ~loadingDraft
  /\ currentPlan # NoPlan
  /\ ~Pending("clearDay")
  /\ HasFreeSlot
  /\ Send([kind |-> "clearDay", phase |-> "sent", plan |-> currentPlan,
           planId |-> currentPlan.id, dayIndex |-> dayIndex])
  /\ UNCHANGED <<srvVars, currentPlan, draftPlan, draftFetch, regeneratingDay,
                 regeneratingMeal, lastAdded>>

\* after the await: the closure's plan with the day's meals filtered out
PlanAfterClearDay(plan, dayIndex) ==
  [plan EXCEPT !.meals = SelectSeq(@, LAMBDA m : m.day_index # dayIndex)]

HandleClearDayThen(r) ==
  /\ r.kind = "clearDay" /\ r.phase = "ok"
  /\ InvalidateWeekPlans
  /\ currentPlan' = PlanAfterClearDay(r.plan, r.dayIndex)
  /\ Drop(r)
  /\ UNCHANGED <<srvVars, draftPlan, regeneratingDay, regeneratingMeal, lastAdded, ops>>

\* ---- handleRegenerateDay
\* mutant: the meal type is left out of the request
RegenerateDayDataWithoutMealType(dayIndex, mealType) ==
  [day_index |-> dayIndex, meal_type |-> "null"]

\* the body of POST /week-plans/{id}/regenerate-day
RegenerateDayData(dayIndex, mealType) == [day_index |-> dayIndex, meal_type |-> mealType]

\* The day's button (mealType absent) is disabled while isRegenerating; a
\* meal's button belongs to a meal shown in its grid cell.
HandleRegenerateDay(dayIndex, mealType) ==
  /\ ~loadingDraft
  /\ currentPlan # NoPlan
  /\ IF mealType = NoMeal THEN ~isRegenerating(dayIndex)
     ELSE /\ getMealsFor(dayIndex, mealType) # <<>>
          /\ ~isMealRegenerating(dayIndex, mealType)
  /\ HasFreeSlot
  /\ regeneratingDay' = dayIndex
  /\ regeneratingMeal' = mealType
  /\ Send([kind |-> "regenerateDay", phase |-> "sent", plan |-> currentPlan,
           planId |-> currentPlan.id, dayIndex |-> dayIndex, mealType |-> mealType,
           data |-> RegenerateDayData(dayIndex, mealType)])
  /\ UNCHANGED <<srvVars, currentPlan, draftPlan, draftFetch, lastAdded>>

\* after the await: the returned plan replaces the local one; finally
\* clears the indicator
HandleRegenerateDayThen(r) ==
  /\ r.kind = "regenerateDay" /\ r.phase = "ok"
  /\ InvalidateWeekPlans
  /\ currentPlan' = r.resp
  /\ regeneratingDay' = NoDay
  /\ regeneratingMeal' = NoMeal
  /\ Drop(r)
  /\ UNCHANGED <<srvVars, draftPlan, lastAdded, ops>>

\* mutant: the slot was emptied optimistically and the catch block does not
\* put the old meals back
HandleRegenerateDayCatchKeepsSlotEmpty(r) ==
  /\ r.kind = "regenerateDay" /\ r.phase = "err"
  /\ currentPlan' =
       IF currentPlan = [id |-> 0] THEN currentPlan
       ELSE [currentPlan EXCEPT
               !.meals = SelectSeq(@, LAMBDA m : ~(/\ m.day_index = r.dayIndex
                                                  /\ r.mealType # "null"
                                                       => m.meal_type = r.mealType))]
  /\ regeneratingDay' = -1
  /\ regeneratingMeal' = "null"
  /\ reqs' = reqs (-) SetToBag({r})
  /\ UNCHANGED <<srvPlans, nextPlanId, nextMealId, draftPlan, draftFetch, lastAdded, ops>>

\* the catch block toasts; finally clears the indicator
HandleRegenerateDayCatch(r) ==
  /\ r.kind = "regenerateDay" /\ r.phase = "err"
  /\ regeneratingDay' = NoDay
  /\ regeneratingMeal' = NoMeal
  /\ Drop(r)
  /\ UNCHANGED <<srvVars, currentPlan, draftPlan, draftFetch, lastAdded, ops>>

\* ---- handleApplyToDiary
\* The dialog's button is disabled while applyToDiary.isPending.
HandleApplyToDiary ==
  /\ ~loadingDraft
  /\ currentPlan # NoPlan
  /\ ~Pending("applyToDiary")
  /\ HasFreeSlot
  /\ Send([kind |-> "applyToDiary", phase |-> "sent", plan |-> currentPlan,
           planId |-> currentPlan.id])
  /\ UNCHANGED <<srvVars, currentPlan, draftPlan, draftFetch, regeneratingDay,
                 regeneratingMeal, lastAdded>>

\* { ...currentPlan, status: 'active' }
PlanAfterApply(plan) == [plan EXCEPT !.status = "active"]

HandleApplyToDiaryThen(r) ==
  /\ r.kind = "applyToDiary" /\ r.phase = "ok"
  /\ InvalidateWeekPlans
  /\ currentPlan' = PlanAfterApply(r.plan)
  /\ Drop(r)
  /\ UNCHANGED <<srvVars, draftPlan, regeneratingDay, regeneratingMeal, lastAdded, ops>>

\* ---- the week grid is rendered: the header of each day calls
\* getDayTotals, each cell getMealsFor
RenderGrid(dayIndex, mealType) ==
  /\ ~loadingDraft
  /\ currentPlan # NoPlan
  /\ currentPlan' = PlanAfterGetMealsFor(PlanAfterGetDayTotals(currentPlan, dayIndex),
                                         dayIndex, mealType)
  /\ UNCHANGED <<srvVars, draftPlan, draftFetch, reqs, regeneratingDay, regeneratingMeal,
                 lastAdded, ops>>

\* ---- handleDiscardPlan
HandleDiscardPlan ==
  /\ ~loadingDraft
  /\ currentPlan # NoPlan
  /\ HasFreeSlot
  /\ Send([kind |-> "delete", phase |-> "sent", plan |-> currentPlan,
           planId |-> currentPlan.id])
  /\ UNCHANGED <<srvVars, currentPlan, draftPlan, draftFetch, regeneratingDay,
                 regeneratingMeal, lastAdded>>

HandleDiscardPlanThen(r) ==
  /\ r.kind = "delete" /\ r.phase = "ok"
  /\ InvalidateWeekPlans
  /\ currentPlan' = NoPlan
  /\ Drop(r)
  /\ UNCHANGED <<srvVars, draftPlan, regeneratingDay, regeneratingMeal, lastAdded, ops>>

\* ---- handleCreateEmptyPlan
\* The create card is rendered while there is no current plan; its button
\* has no disabled state.
HandleCreateEmptyPlan ==
  /\ ~loadingDraft
  /\ currentPlan = NoPlan
  /\ HasFreeSlot
  /\ Send([kind |-> "create", phase |-> "sent", plan |-> currentPlan, status |-> "draft"])
  /\ UNCHANGED <<srvVars, currentPlan, draftPlan, draftFetch, regeneratingDay,
                 regeneratingMeal, lastAdded>>

HandleCreateEmptyPlanThen(r) ==
  /\ r.kind = "create" /\ r.phase = "ok"
  /\ InvalidateWeekPlans
  /\ currentPlan' = r.resp
  /\ Drop(r)
  /\ UNCHANGED <<srvVars, draftPlan, regeneratingDay, regeneratingMeal, lastAdded, ops>>

\* ---- handleGeneratePlan
\* an estimate the AI response leaves out
NoNumber == -1

\* x || 0
OrZero(x) == IF x = NoNumber THEN 0 ELSE x

\* result.days.map(...): the per-day estimates of the proposal
AiDays(days) ==
  [i \in 1..Len(days) |->
     [estimated_calories |-> OrZero(days[i].estimated_calories),
      estimated_protein |-> OrZero(days[i].estimated_protein),
      estimated_carbs |-> OrZero(days[i].estimated_carbs),
      estimated_fat |-> OrZero(days[i].estimated_fat)]]

\* The button is disabled while either of its two requests is pending.
HandleGeneratePlan ==
  /\ ~loadingDraft
  /\ currentPlan = NoPlan
  /\ ~Pending("generateMealPlan") /\ ~Pending("createFromAi")
  /\ HasFreeSlot
  /\ Send([kind |-> "generateMealPlan", phase |-> "sent", plan |-> currentPlan])
  /\ UNCHANGED <<srvVars, currentPlan, draftPlan, draftFetch, regeneratingDay,
                 regeneratingMeal, lastAdded>>

\* after the first await: convert the proposal and post it
HandleGeneratePlanConvert(r) ==
  /\ r.kind = "generateMealPlan" /\ r.phase = "ok"
  /\ Replace(r, [kind |-> "createFromAi", phase |-> "sent",
                 plan |-> r.plan, days |-> AiDays(r.resp)])
  /\ UNCHANGED <<srvVars, currentPlan, draftPlan, draftFetch, regeneratingDay,
                 regeneratingMeal, lastAdded, ops>>

\* after the second await
HandleGeneratePlanThen(r) ==
  /\ r.kind = "createFromAi" /\ r.phase = "ok"
  /\ InvalidateWeekPlans
  /\ currentPlan' = r.resp
  /\ Drop(r)
  /\ UNCHANGED <<srvVars, draftPlan, regeneratingDay, regeneratingMeal, lastAdded, ops>>

\* ---- the catch blocks that only log or toast
HandlerCatch(r) ==
  /\ r.kind # "regenerateDay" /\ r.phase = "err"
  /\ Drop(r)
  /\ UNCHANGED <<srvVars, currentPlan, draftPlan, draftFetch, regeneratingDay,
                 regeneratingMeal, lastAdded, ops>>

\* ---- the draft query and the effect that loads it
DraftFetched ==
  /\ draftFetch.st = "answered"
  /\ draftPlan' = draftFetch.data
  /\ draftFetch' = [st |-> "idle"]
  /\ currentPlan' = IF draftFetch.data # draftPlan /\ draftFetch.data # NoPlan
                    THEN draftFetch.data ELSE currentPlan
  /\ UNCHANGED <<srvVars, reqs, regeneratingDay, regeneratingMeal, lastAdded, ops>>

DraftFetchFailed ==
  /\ draftFetch.st = "sent"
  /\ draftFetch' = [st |-> "idle"]
  /\ UNCHANGED <<srvVars, currentPlan, draftPlan, reqs, regeneratingDay,
                 regeneratingMeal, lastAdded, ops>>

\* ------------------------------------------------- the backend's handlers
Answer(r, resp) == Replace(r, [phase |-> "ok", resp |-> resp] @@ r)

clientVars == <<currentPlan, draftPlan, draftFetch, regeneratingDay, regeneratingMeal,
                lastAdded, ops>>

\* any request may fail: the plan or meal is not found, the backend or the
\* suggestion service errors, the network drops.  Nothing is applied.
ServeFail(r) ==
  /\ r.phase = "sent"
  /\ Replace(r, [r EXCEPT !.phase = "err"])
  /\ UNCHANGED <<srvVars, clientVars>>

ServeAddMeal(r) ==
  /\ r.kind = "addMeal" /\ r.phase = "sent"
  /\ SrvHas(r.planId)
  /\ LET m == NewMeal(nextMealId, r.dayIndex, r.mealType, r.data)
     IN /\ srvPlans' = SrvPut(SrvAddMeal(SrvGet(r.planId), m))
        /\ Answer(r, m)
  /\ nextMealId' = nextMealId + 1
  /\ UNCHANGED <<nextPlanId, clientVars>>

ServeRemoveMeal(r) ==
  /\ r.kind = "removeMeal" /\ r.phase = "sent"
  /\ SrvHas(r.planId)
  /\ r.mealId \in MealIds(SrvGet(r.planId).meals)
  /\ srvPlans' = SrvPut(SrvRemoveMeal(SrvGet(r.planId), r.mealId))
  /\ Answer(r, NoPlan)
  /\ UNCHANGED <<nextPlanId, nextMealId, clientVars>>

ServeClearDay(r) ==
  /\ r.kind = "clearDay" /\ r.phase = "sent"
  /\ SrvHas(r.planId)
  /\ srvPlans' = SrvPut(SrvClearDay(SrvGet(r.planId), r.dayIndex))
  /\ Answer(r, NoPlan)
  /\ UNCHANGED <<nextPlanId, nextMealId, clientVars>>

\* the suggestion service returns one or more foods with estimated
\* nutrients: for the requested meal type, or for the day's meals in the
\* order of MEAL_TYPES
FreshMeals(dayIndex, mealType, firstId) ==
  UNION { { [i \in 1..n |->
               NewMeal(firstId + i - 1, dayIndex,
                       IF mealType = NoMeal THEN MEAL_TYPES[i] ELSE mealType, vs[i])] :
              vs \in [1..n -> SuggestionVecs] } :
          n \in 1..MaxGen }

ServeRegenerateDay(r) ==
  /\ r.kind = "regenerateDay" /\ r.phase = "sent"
  /\ SrvHas(r.planId)
  /\ \E fresh \in FreshMeals(r.data.day_index, r.data.meal_type, nextMealId) :
        /\ LET p == SrvRegenerateDay(SrvGet(r.planId), r.data.day_index,
                                     r.data.meal_type, fresh)
           IN /\ srvPlans' = SrvPut(p)
              /\ Answer(r, p)
        /\ nextMealId' = nextMealId + Len(fresh)
  /\ UNCHANGED <<nextPlanId, clientVars>>

\* The diary entries are created from the plan's meals, which stay as they
\* are.  The plan's status moves to active, as the page assumes, or stays.
ServeApplyToDiary(r) ==
  /\ r.kind = "applyToDiary" /\ r.phase = "sent"
  /\ SrvHas(r.planId)
  /\ \E activate \in BOOLEAN :
        srvPlans' = IF activate /\ SrvGet(r.planId).status = "draft"
                    THEN SrvPut([SrvGet(r.planId) EXCEPT !.status = "active"])
                    ELSE srvPlans
  /\ Answer(r, NoPlan)
  /\ UNCHANGED <<nextPlanId, nextMealId, clientVars>>

\* mutant: the store deletes a plan whatever its status
ServeDeleteAnyStatus(r) ==
  /\ r.kind = "delete" /\ r.phase = "sent"
  /\ SrvHas(r.planId)
  /\ srvPlans' = {p \in srvPlans : p.id # r.planId}
  /\ Answer(r, NoPlan)
  /\ UNCHANGED <<nextPlanId, nextMealId, clientVars>>

\* only a draft may be deleted outright
ServeDelete(r) ==
  /\ r.kind = "delete" /\ r.phase = "sent"
  /\ SrvHas(r.planId)
  /\ SrvGet(r.planId).status = "draft"
  /\ srvPlans' = {p \in srvPlans : p.id # r.planId}
  /\ Answer(r, NoPlan)
  /\ UNCHANGED <<nextPlanId, nextMealId, clientVars>>

ServeCreate(r) ==
  /\ r.kind = "create" /\ r.phase = "sent"
  /\ SrvMayCreate(r.status)
  /\ srvPlans' = SrvPut(EmptyPlan(nextPlanId, r.status))
  /\ Answer(r, EmptyPlan(nextPlanId, r.status))
  /\ nextPlanId' = nextPlanId + 1
  /\ UNCHANGED <<nextMealId, clientVars>>

\* the proposal of the AI service: per-day estimates, some left out
AiProposals ==
  UNION { [1..n -> SuggestionVecs \cup
                   {[calories |-> NoNumber, protein |-> NoNumber,
                     carbs |-> NoNumber, fat |-> NoNumber]}] : n \in 1..MaxAiDays }

ServeGenerateMealPlan(r) ==
  /\ r.kind = "generateMealPlan" /\ r.phase = "sent"
  /\ \E vs \in AiProposals :
        Answer(r, [i \in 1..Len(vs) |->
                     [estimated_calories |-> vs[i].calories,
                      estimated_protein |-> vs[i].protein,
                      estimated_carbs |-> vs[i].carbs, estimated_fat |-> vs[i].fat]])
  /\ UNCHANGED <<srvVars, clientVars>>

ServeCreateFromAiPlan(r) ==
  /\ r.kind = "createFromAi" /\ r.phase = "sent"
  /\ SrvMayCreate("draft")
  /\ LET p == SrvCreateFromAiPlan(nextPlanId, r.days, nextMealId)
     IN /\ srvPlans' = SrvPut(p)
        /\ Answer(r, p)
  /\ nextPlanId' = nextPlanId + 1
  /\ nextMealId' = nextMealId + Len(r.days)
  /\ UNCHANGED clientVars

ServeGetDraft ==
  /\ draftFetch.st = "sent"
  /\ draftFetch' = [st |-> "answered", data |-> SrvGetDraft]
  /\ UNCHANGED <<srvVars, currentPlan, draftPlan, reqs, regeneratingDay,
                 regeneratingMeal, lastAdded, ops>>

\* ---------------------------------------------------------- specification
Next ==
  \/ \E c \in AddChoices : HandleAddFoodToWeekPlan(c) /\ UNCHANGED <<recipeVars, diaryVars>>
  \/ \E m \in 1..(nextMealId - 1) : HandleRemoveMeal(m) /\ UNCHANGED <<recipeVars, diaryVars>>
  \/ \E d \in DayChoices : HandleClearDay(d) /\ UNCHANGED <<recipeVars, diaryVars>>
  \/ \E d \in DayChoices, t \in MealTypeChoices \cup {NoMeal} : HandleRegenerateDay(d, t) /\ UNCHANGED <<recipeVars, diaryVars>>
  \/ \E d \in DayChoices, t \in MealTypeChoices : RenderGrid(d, t) /\ UNCHANGED <<recipeVars, diaryVars>>
  \/ HandleApplyToDiary /\ UNCHANGED <<recipeVars, diaryVars>>
  \/ HandleDiscardPlan /\ UNCHANGED <<recipeVars, diaryVars>>
  \/ HandleCreateEmptyPlan /\ UNCHANGED <<recipeVars, diaryVars>>
  \/ HandleGeneratePlan /\ UNCHANGED <<recipeVars, diaryVars>>
  \/ /\ UNCHANGED <<recipeVars, diaryVars>>
     /\ \E r \in BagToSet(reqs) :
           \/ ServeFail(r)
           \/ ServeAddMeal(r)
           \/ ServeRemoveMeal(r)
           \/ ServeClearDay(r)
           \/ ServeRegenerateDay(r)
           \/ ServeApplyToDiary(r)
           \/ ServeDelete(r)
           \/ ServeCreate(r)
           \/ ServeGenerateMealPlan(r)
           \/ ServeCreateFromAiPlan(r)
           \/ HandleAddFoodToWeekPlanThen(r)
           \/ HandleRemoveMealThen(r)
           \/ HandleClearDayThen(r)
           \/ HandleRegenerateDayThen(r)
           \/ HandleRegenerateDayCatch(r)
           \/ HandleApplyToDiaryThen(r)
           \/ HandleDiscardPlanThen(r)
           \/ HandleCreateEmptyPlanThen(r)
           \/ HandleGeneratePlanConvert(r)
           \/ HandleGeneratePlanThen(r)
           \/ HandlerCatch(r)
  \/ ServeGetDraft /\ UNCHANGED <<recipeVars, diaryVars>>
  \/ DraftFetched /\ UNCHANGED <<recipeVars, diaryVars>>
  \/ DraftFetchFailed /\ UNCHANGED <<recipeVars, diaryVars>>

Spec == Init /\ [][Next]_vars

\* ------------------------------------------------------ the recipe creator
\* components/RecipeCreator.tsx of the earlier Frontend application: a form
\* with a servings field and a list of ingredient lines, and the nutrition
\* per serving that is computed from them on every render.
\*
\* Nutrient values of ingredients are whole numbers here; sums of scaled
\* values count hundredths.

\* number of ingredient lines of a recipe
MaxIngredients == 2

\* an ingredient as the nutrition lookup delivers it; ps and p100 are the
\* per-serving and the per-100g basis <<calories, protein, carbs, fat, fiber>>
Ing(unit, size, ps, p100) ==
  [serving_unit |-> unit, serving_size |-> size,
   calories_per_serving |-> ps[1], protein_per_serving |-> ps[2],
   carbs_per_serving |-> ps[3], fat_per_serving |-> ps[4], fiber_per_serving |-> ps[5],
   calories_per_100g |-> p100[1], protein_per_100g |-> p100[2],
   carbs_per_100g |-> p100[3], fat_per_100g |-> p100[4], fiber_per_100g |-> p100[5]]

\* the ingredients the selector offers, by id.  NoNumber is a value that is
\* left out, "" a serving unit that is left out.
Ingredients ==
  [i \in 1..8 |->
     CASE i = 1 -> Ing("egg", 1, <<70, 6, 1, 5, NoNumber>>, <<155, 13, 1, 11, NoNumber>>)
       [] i = 2 -> Ing("piece", 1, <<120, 4, 22, 2, 1>>, <<300, 10, 55, 5, 3>>)
       [] i = 3 -> Ing("ml", 250, <<150, 8, 12, 8, 0>>, <<60, 3, 5, 3, 0>>)
       [] i = 4 -> Ing("fluid ounce", NoNumber, <<14, 0, 3, 0, 0>>, <<45, 1, 10, 0, 0>>)
       [] i = 5 -> Ing("g", 40, <<152, 5, 27, 3, 4>>, <<380, 13, 67, 7, 10>>)
       [] i = 6 -> Ing("g", 100, <<200, 4, 44, 1, 1>>, <<200, 4, 44, 1, 1>>)
       [] i = 7 -> Ing("tablespoon", 1, <<120, 0, 0, 14, NoNumber>>, <<880, 0, 0, 100, NoNumber>>)
       [] i = 8 -> Ing("", NoNumber, <<600, 20, 20, 50, 8>>, <<600, 20, 20, 50, 8>>)]

IngredientIds == DOMAIN Ingredients

\* what the user types into the quantity field of a line
QuantityChoices == {2, 150}

\* what a cleared quantity field yields: parseFloat(e.target.value) || 0
ClearedQuantity == 0

\* what the user picks in the unit select of a line
UnitChoices == {"g", "piece"}

\* what the servings field can hold: a number input yields the empty string
\* for anything that is not a number
ServingsChoices ==
  { <<>>, <<"0">>, <<"1">>, <<"3">>, <<"4">>, <<"-", "2">> }

Digits == <<"0", "1", "2", "3", "4", "5", "6", "7", "8", "9">>

DigitValue(c) == (CHOOSE k \in 1..10 : Digits[k] = c) - 1

IsDigit(c) == \E k \in 1..10 : Digits[k] = c

\* the value of the longest prefix of digits of s, after the digits read so far
RECURSIVE DigitPrefix(_, _)
DigitPrefix(s, acc) ==
  IF s = <<>> \/ ~IsDigit(Head(s)) THEN acc
  ELSE DigitPrefix(Tail(s), 10 * acc + DigitValue(Head(s)))

\* parseInt(s): an optional sign and the digits that follow; NaN when no
\* digit follows
ParseInt(s) ==
  LET neg == s # <<>> /\ Head(s) = "-"
      body == IF s # <<>> /\ Head(s) \in {"-", "+"} THEN Tail(s) ELSE s
  IN IF body = <<>> \/ ~IsDigit(Head(body)) THEN [nan |-> TRUE, value |-> 0]
     ELSE [nan |-> FALSE,
           value |-> IF neg THEN 0 - DigitPrefix(body, 0) ELSE DigitPrefix(body, 0)]

\* parseInt(formData.servings) || 1: NaN and 0 are falsy
ParseIntOrOne(s) ==
  IF ParseInt(s).nan \/ ParseInt(s).value = 0 THEN 1 ELSE ParseInt(s).value

\* mutant: the quotient is cut off instead of rounded
RoundDown(n, d) ==
  IF d > 0 THEN n \div d ELSE (0 - n) \div (0 - d)

\* Math.round(n / d), d # 0: the nearest integer, halves upwards
Round(n, d) ==
  IF d > 0 THEN (2 * n + d) \div (2 * d)
  ELSE (2 * (0 - n) + (0 - d)) \div (2 * (0 - d))

\* ---- addIngredient: the defaults of a new line
\* mutant: the long household names are kept as they are
defaultUnitNotNormalized(ingredient) ==
  LET u == ingredient.serving_unit
  IN IF u = "" THEN "g"
     ELSE IF u \in {"egg", "piece", "item", "whole"} THEN "piece"
     ELSE IF u \in {"ml", "fluid ounce"} THEN "ml"
     ELSE IF u = "g" /\ ingredient.serving_size \notin {NoNumber, 0, 100} THEN "g"
     ELSE IF u \in {"cup", "tbsp", "tsp", "tablespoon", "teaspoon"} THEN u
     ELSE "g"

defaultUnit(ingredient) ==
  LET u == ingredient.serving_unit
  IN IF u = "" THEN "g"
     ELSE IF u \in {"egg", "piece", "item", "whole"} THEN "piece"
     ELSE IF u \in {"ml", "fluid ounce"} THEN "ml"
     ELSE IF u = "g" /\ ingredient.serving_size \notin {NoNumber, 0, 100} THEN "g"
     ELSE IF u \in {"cup", "tbsp", "tsp", "tablespoon", "teaspoon"}
          THEN (IF u = "tablespoon" THEN "tbsp"
                ELSE IF u = "teaspoon" THEN "tsp" ELSE u)
     ELSE "g"

defaultQuantity(ingredient) ==
  LET u == ingredient.serving_unit
  IN IF u = "" THEN 100
     ELSE IF u \in {"egg", "piece", "item", "whole"} THEN 1
     ELSE IF u \in {"ml", "fluid ounce"}
          THEN (IF ingredient.serving_size \in {NoNumber, 0} THEN 100
                ELSE ingredient.serving_size)
     ELSE IF u = "g" /\ ingredient.serving_size \notin {NoNumber, 0, 100}
          THEN ingredient.serving_size
     ELSE IF u \in {"cup", "tbsp", "tsp", "tablespoon", "teaspoon"} THEN 1
     ELSE 100

addIngredient(id) ==
  /\ showRecipeCreator
  /\ Len(selectedIngredients) < MaxIngredients
  /\ selectedIngredients' =
       Append(selectedIngredients,
              [ingredient_id |-> id, quantity |-> defaultQuantity(Ingredients[id]),
               unit |-> defaultUnit(Ingredients[id])])
  /\ UNCHANGED <<formData, plannerVars, mealPlanVars>>

updateIngredientQuantity(index, quantity) ==
  /\ showRecipeCreator
  /\ index \in 1..Len(selectedIngredients)
  /\ selectedIngredients' = [selectedIngredients EXCEPT ![index].quantity = quantity]
  /\ UNCHANGED <<formData, plannerVars, mealPlanVars>>

updateIngredientUnit(index, unit) ==
  /\ showRecipeCreator
  /\ index \in 1..Len(selectedIngredients)
  /\ selectedIngredients' = [selectedIngredients EXCEPT ![index].unit = unit]
  /\ UNCHANGED <<formData, plannerVars, mealPlanVars>>

removeIngredient(index) ==
  /\ showRecipeCreator
  /\ index \in 1..Len(selectedIngredients)
  /\ selectedIngredients' =
       [k \in 1..(Len(selectedIngredients) - 1) |->
          IF k < index THEN selectedIngredients[k] ELSE selectedIngredients[k + 1]]
  /\ UNCHANGED <<formData, plannerVars, mealPlanVars>>

\* handleInputChange('servings', value)
handleInputChange(value) ==
  /\ showRecipeCreator
  /\ formData' = [formData EXCEPT !.servings = value]
  /\ UNCHANGED <<selectedIngredients, plannerVars, mealPlanVars>>

\* ---- calculateNutrition
ZeroVec5 == [calories |-> 0, protein |-> 0, carbs |-> 0, fat |-> 0, fiber |-> 0]

VecAdd5(a, b) ==
  [calories |-> a.calories + b.calories, protein |-> a.protein + b.protein,
   carbs |-> a.carbs + b.carbs, fat |-> a.fat + b.fat, fiber |-> a.fiber + b.fiber]

\* item.ingredient is set: the line's ingredient was delivered with it
Resolved(item) == item.ingredient_id \in IngredientIds

\* mutant: every line is scaled on the per-serving basis by its quantity
ScaledPerServingAlways(item) ==
  LET g == Ingredients[item.ingredient_id]
      multiplier == item.quantity * 100
  IN [calories |-> g.calories_per_serving * multiplier,
      protein |-> g.protein_per_serving * multiplier,
      carbs |-> g.carbs_per_serving * multiplier,
      fat |-> g.fat_per_serving * multiplier,
      fiber |-> OrZero(g.fiber_per_serving) * multiplier]

\* the body of the forEach: what one line adds to the totals, in hundredths
Scaled(item) ==
  LET g == Ingredients[item.ingredient_id]
  IN IF item.unit = "piece" /\ g.serving_unit = "egg"
     THEN LET multiplier == item.quantity * 100
          IN [calories |-> g.calories_per_serving * multiplier,
              protein |-> g.protein_per_serving * multiplier,
              carbs |-> g.carbs_per_serving * multiplier,
              fat |-> g.fat_per_serving * multiplier,
              fiber |-> OrZero(g.fiber_per_serving) * multiplier]
     ELSE LET multiplier == item.quantity
          IN [calories |-> g.calories_per_100g * multiplier,
              protein |-> g.protein_per_100g * multiplier,
              carbs |-> g.carbs_per_100g * multiplier,
              fat |-> g.fat_per_100g * multiplier,
              fiber |-> OrZero(g.fiber_per_100g) * multiplier]

\* mutant: the sum stops at the first line without an ingredient
RECURSIVE TotalsStopAtUnresolved(_)
TotalsStopAtUnresolved(items) ==
  IF items = <<>> THEN ZeroVec5
  ELSE IF Resolved(Head(items))
       THEN VecAdd5(Scaled(Head(items)), TotalsStopAtUnresolved(Tail(items)))
       ELSE ZeroVec5

\* selectedIngredients.forEach(item => { if (item.ingredient) { ... } })
RECURSIVE Totals(_)
Totals(items) ==
  IF items = <<>> THEN ZeroVec5
  ELSE IF Resolved(Head(items))
       THEN VecAdd5(Scaled(Head(items)), Totals(Tail(items)))
       ELSE Totals(Tail(items))

\* const servings = parseInt(formData.servings) || 1
servings == ParseIntOrOne(formData.servings)

\* the nutrition per serving the form shows: calories in whole kcal, the
\* other fields in tenths of a gram
calculateNutrition ==
  LET t == Totals(selectedIngredients)
  IN [calories |-> Round(t.calories, 100 * servings),
      protein |-> Round(t.protein, 10 * servings),
      carbs |-> Round(t.carbs, 10 * servings),
      fat |-> Round(t.fat, 10 * servings),
      fiber |-> Round(t.fiber, 10 * servings)]

\* the planner page is not in use
PlannerPageClosed ==
  /\ srvPlans = {} /\ nextPlanId = 1 /\ nextMealId = 1
  /\ currentPlan = NoPlan
  /\ draftPlan = Undefined
  /\ draftFetch = [st |-> "idle"]
  /\ reqs = EmptyBag
  /\ regeneratingDay = NoDay
  /\ regeneratingMeal = NoMeal
  /\ lastAdded = [id |-> 0]
  /\ ops = 0

\* the frontend application is not in use
PlannerClosed == PlannerPageClosed /\ DiaryClosed

\* a line of a stored recipe whose ingredient is not delivered with it
UnresolvedLine == [ingredient_id |-> 0, quantity |-> 50, unit |-> "g"]

\* The recipe creator has been opened for a new recipe.
InitRecipe ==
  /\ PlannerClosed
  /\ formData = [servings |-> <<"1">>]
  /\ selectedIngredients = <<>>
  /\ editingRecipe = NoRecipe
  /\ showRecipeCreator = TRUE
  /\ recipeReq = [st |-> "idle"]
  /\ srvRecipes = {}
  /\ mealPlan = NoMealPlan
  /\ weekLoad = EmptyBag
  /\ currentWeek = 0
  /\ loading = FALSE
  /\ srvEntries = <<>>

NextRecipe ==
  \/ \E id \in IngredientIds : addIngredient(id)
  \/ \E index \in 1..MaxIngredients, q \in QuantityChoices :
        updateIngredientQuantity(index, q)
  \/ \E index \in 1..MaxIngredients, u \in UnitChoices : updateIngredientUnit(index, u)
  \/ \E index \in 1..MaxIngredients : removeIngredient(index)
  \/ \E v \in ServingsChoices : handleInputChange(v)

SpecRecipe == InitRecipe /\ [][NextRecipe]_vars

\* The recipe creator has been opened for a stored recipe with one line
\* whose ingredient is missing.
InitRecipeEdit ==
  /\ PlannerClosed
  /\ formData = [servings |-> <<"1">>]
  /\ selectedIngredients = <<UnresolvedLine>>
  /\ editingRecipe = [id |-> 2]
  /\ showRecipeCreator = TRUE
  /\ recipeReq = [st |-> "idle"]
  /\ srvRecipes = {}
  /\ mealPlan = NoMealPlan
  /\ weekLoad = EmptyBag
  /\ currentWeek = 0
  /\ loading = FALSE
  /\ srvEntries = <<>>

SpecRecipeEdit == InitRecipeEdit /\ [][NextRecipe]_vars

\* ------------------------------------------- recipes in the weekly plan
\* The recipes page opens the recipe creator for an existing recipe
\* (editingRecipe) and handleSubmit stores the edited recipe.  The
\* weekly-plan page loads the week's plan, whose entries name a recipe and a
\* number of servings and carry the recipe as the backend delivers it; the
\* grid shows recipe.nutrition times servings.
\*
\* The recipe store and the plan it delivers are not part of the sources.
\* They are modelled from sections 4.2, 4.3 and 4.4 of the specification: a
\* recipe's nutrition is always computed from its current ingredient lines.

\* section 4.2: the scaled vector of one line, in hundredths
SrvScaled(item) ==
  LET g == Ingredients[item.ingredient_id]
  IN IF item.unit = "piece" /\ g.serving_unit \in {"egg", "piece", "item", "whole"}
     THEN [calories |-> 100 * g.calories_per_serving * item.quantity,
           protein |-> 100 * g.protein_per_serving * item.quantity,
           carbs |-> 100 * g.carbs_per_serving * item.quantity,
           fat |-> 100 * g.fat_per_serving * item.quantity,
           fiber |-> 100 * OrZero(g.fiber_per_serving) * item.quantity]
     ELSE [calories |-> g.calories_per_100g * item.quantity,
           protein |-> g.protein_per_100g * item.quantity,
           carbs |-> g.carbs_per_100g * item.quantity,
           fat |-> g.fat_per_100g * item.quantity,
           fiber |-> OrZero(g.fiber_per_100g) * item.quantity]

RECURSIVE SrvTotals(_)
SrvTotals(items) ==
  IF items = <<>> THEN ZeroVec5
  ELSE VecAdd5(SrvScaled(Head(items)), SrvTotals(Tail(items)))

\* section 4.3: servings of at least 1, 1 when unset or invalid
SrvServings(n) == IF n.nan \/ n.value < 1 THEN 1 ELSE n.value

\* section 4.3: the per-serving vector, to the nearest hundredth
SrvNutrition(items, n) ==
  LET t == SrvTotals(items)
      k == SrvServings(n)
  IN [calories |-> Round(t.calories, k), protein |-> Round(t.protein, k),
      carbs |-> Round(t.carbs, k), fat |-> Round(t.fat, k),
      fiber |-> Round(t.fiber, k)]

SrvRecipe(id, data) ==
  [id |-> id, servings |-> SrvServings(data.servings), ingredients |-> data.ingredients,
   nutrition |-> SrvNutrition(data.ingredients, data.servings)]

\* a recipe of an earlier session: two eggs and 150 g of rice, one serving
SeedRecipe ==
  SrvRecipe(1, [servings |-> [nan |-> FALSE, value |-> 1],
                ingredients |-> << [ingredient_id |-> 1, quantity |-> 2, unit |-> "piece"],
                                   [ingredient_id |-> 6, quantity |-> 150, unit |-> "g"] >>])

\* the week's plan as the store holds it: one entry, two servings of the recipe
SeedEntries == << [id |-> 1, recipe_id |-> 1, servings |-> 2] >>

\* weeks the page is navigated to, from the week at mount
MaxWeek == 1

\* requests of the weekly-plan page in flight
MaxWeekReqs == 2

\* the structure shown when nothing could be loaded: id 0, no entries
TemporaryPlan(week) == [id |-> 0, start_date |-> week, entries |-> <<>>]

\* the plan the backend delivers for a week: the stored plan of week 0,
\* every entry with its recipe; for another week the plan created on the
\* first visit, which has no entries
SrvMealPlanForWeek(week) ==
  IF week = 0
  THEN [id |-> 1, start_date |-> 0,
        entries |-> [k \in 1..Len(srvEntries) |->
                       [id |-> srvEntries[k].id, recipe_id |-> srvEntries[k].recipe_id,
                        servings |-> srvEntries[k].servings,
                        recipe |-> CHOOSE r \in srvRecipes :
                                      r.id = srvEntries[k].recipe_id]]]
  ELSE [id |-> 1 + week, start_date |-> week, entries |-> <<>>]

\* what the grid shows for an entry:
\* Math.round(entry.recipe.nutrition.calories * entry.servings)
EntryCalories(entry) == Round(entry.recipe.nutrition.calories * entry.servings, 100)

\* ---- handleSubmit
\* title and instructions are filled in; the submit button is disabled
\* while loading
handleSubmit ==
  /\ showRecipeCreator
  /\ selectedIngredients # <<>>
  /\ recipeReq.st = "idle"
  /\ recipeReq' = [st |-> "sent", id |-> editingRecipe.id,
                   data |-> [servings |-> ParseInt(formData.servings),
                             ingredients |-> selectedIngredients]]
  /\ UNCHANGED <<formData, selectedIngredients, showRecipeCreator, editingRecipe,
                 srvRecipes, mealPlan, weekLoad, weekVars, plannerVars>>

\* updateRecipe(editingRecipe.id, recipeData) on the backend
ServeUpdateRecipe ==
  /\ recipeReq.st = "sent"
  /\ \E r \in srvRecipes : r.id = recipeReq.id
  /\ srvRecipes' = {r \in srvRecipes : r.id # recipeReq.id}
                     \cup {SrvRecipe(recipeReq.id, recipeReq.data)}
  /\ recipeReq' = [st |-> "ok"]
  /\ UNCHANGED <<formData, selectedIngredients, showRecipeCreator, editingRecipe,
                 mealPlan, weekLoad, weekVars, plannerVars>>

ServeUpdateRecipeFail ==
  /\ recipeReq.st = "sent"
  /\ recipeReq' = [st |-> "err"]
  /\ UNCHANGED <<formData, selectedIngredients, showRecipeCreator, editingRecipe,
                 srvRecipes, mealPlan, weekLoad, weekVars, plannerVars>>

\* onRecipeCreated(updatedRecipe): the recipes page closes the creator
handleSubmitThen ==
  /\ recipeReq.st = "ok"
  /\ recipeReq' = [st |-> "idle"]
  /\ showRecipeCreator' = FALSE
  /\ editingRecipe' = NoRecipe
  /\ formData' = [servings |-> <<"1">>]
  /\ selectedIngredients' = <<>>
  /\ UNCHANGED <<srvRecipes, mealPlan, weekLoad, weekVars, plannerVars>>

\* the catch block sets the error text; the form stays open
handleSubmitCatch ==
  /\ recipeReq.st = "err"
  /\ recipeReq' = [st |-> "idle"]
  /\ UNCHANGED <<formData, selectedIngredients, showRecipeCreator, editingRecipe,
                 srvRecipes, mealPlan, weekLoad, weekVars, plannerVars>>

\* ---- loadWeekData
\* setLoading(true) and the fetch of the week the caller's closure holds
StartLoad(week) == [kind |-> "load", st |-> "sent", week |-> week]

weekFormVars == <<formData, selectedIngredients, showRecipeCreator, editingRecipe,
                  recipeReq, srvRecipes>>

\* the page is mounted: the effect on [currentWeek] runs loadWeekData
loadWeekData ==
  /\ weekLoad = EmptyBag
  /\ weekLoad' = SetToBag({StartLoad(currentWeek)})
  /\ loading' = TRUE
  /\ UNCHANGED <<weekFormVars, mealPlan, currentWeek, srvEntries, plannerVars>>

\* fetchMealPlanForWeek(weekStart), and createMealPlanForWeek(weekStart) for
\* a week that has no plan; if the creation fails the temporary structure
ServeMealPlanForWeek(r) ==
  /\ r.kind = "load" /\ r.st = "sent"
  /\ \E data \in {SrvMealPlanForWeek(r.week)}
                   \cup (IF r.week = 0 THEN {} ELSE {TemporaryPlan(r.week)}) :
        weekLoad' = (weekLoad (-) SetToBag({r}))
                      (+) SetToBag({[r EXCEPT !.st = "answered"] @@ [data |-> data]})
  /\ UNCHANGED <<weekFormVars, mealPlan, weekVars, plannerVars>>

ServeMealPlanForWeekFail(r) ==
  /\ r.kind = "load" /\ r.st = "sent"
  /\ weekLoad' = (weekLoad (-) SetToBag({r})) (+) SetToBag({[r EXCEPT !.st = "err"]})
  /\ UNCHANGED <<weekFormVars, mealPlan, weekVars, plannerVars>>

\* setMealPlan(weekMealPlan); finally setLoading(false)
loadWeekDataThen(r) ==
  /\ r.kind = "load" /\ r.st = "answered"
  /\ mealPlan' = r.data
  /\ loading' = FALSE
  /\ weekLoad' = weekLoad (-) SetToBag({r})
  /\ UNCHANGED <<weekFormVars, currentWeek, srvEntries, plannerVars>>

\* the catch block shows an empty week, named after the week of the closure
loadWeekDataCatch(r) ==
  /\ r.kind = "load" /\ r.st = "err"
  /\ mealPlan' = TemporaryPlan(r.week)
  /\ loading' = FALSE
  /\ weekLoad' = weekLoad (-) SetToBag({r})
  /\ UNCHANGED <<weekFormVars, currentWeek, srvEntries, plannerVars>>

\* ---- navigateWeek and goToCurrentWeek
\* The buttons are rendered while the page is not loading.  setCurrentWeek
\* and the effect on [currentWeek], which runs loadWeekData for the new week.
GoToWeek(week) ==
  /\ ~loading
  /\ BagCardinality(weekLoad) < MaxWeekReqs
  /\ currentWeek' = week
  /\ weekLoad' = weekLoad (+) SetToBag({StartLoad(week)})
  /\ loading' = TRUE
  /\ UNCHANGED <<weekFormVars, mealPlan, srvEntries, plannerVars>>

navigateWeek(direction) ==
  /\ currentWeek + direction \in 0..MaxWeek
  /\ GoToWeek(currentWeek + direction)

goToCurrentWeek ==
  /\ currentWeek # 0
  /\ GoToWeek(0)

\* ---- handleRemoveMeal of the weekly-plan page
\* the grid's remove button of an entry that is shown
handleRemoveMealEntry(entryId) ==
  /\ ~loading
  /\ mealPlan # NoMealPlan
  /\ \E k \in 1..Len(mealPlan.entries) : mealPlan.entries[k].id = entryId
  /\ BagCardinality(weekLoad) < MaxWeekReqs
  /\ weekLoad' = weekLoad (+) SetToBag({[kind |-> "remove", st |-> "sent",
                                         week |-> currentWeek, entryId |-> entryId]})
  /\ UNCHANGED <<weekFormVars, mealPlan, weekVars, plannerVars>>

\* DELETE /api/meal-plans/entries/{entryId}
ServeRemoveEntry(r) ==
  /\ r.kind = "remove" /\ r.st = "sent"
  /\ \E k \in 1..Len(srvEntries) : srvEntries[k].id = r.entryId
  /\ srvEntries' = SelectSeq(srvEntries, LAMBDA e : e.id # r.entryId)
  /\ weekLoad' = (weekLoad (-) SetToBag({r})) (+) SetToBag({[r EXCEPT !.st = "ok"]})
  /\ UNCHANGED <<weekFormVars, mealPlan, currentWeek, loading, plannerVars>>

\* the response is not ok, or fetch throws
ServeRemoveEntryFail(r) ==
  /\ r.kind = "remove" /\ r.st = "sent"
  /\ weekLoad' = (weekLoad (-) SetToBag({r})) (+) SetToBag({[r EXCEPT !.st = "err"]})
  /\ UNCHANGED <<weekFormVars, mealPlan, weekVars, plannerVars>>

\* if (response.ok) await loadWeekData(): the loadWeekData of the render in
\* which the button was clicked, with that render's currentWeek
handleRemoveMealEntryThen(r) ==
  /\ r.kind = "remove" /\ r.st = "ok"
  /\ weekLoad' = (weekLoad (-) SetToBag({r})) (+) SetToBag({StartLoad(r.week)})
  /\ loading' = TRUE
  /\ UNCHANGED <<weekFormVars, mealPlan, currentWeek, srvEntries, plannerVars>>

handleRemoveMealEntryCatch(r) ==
  /\ r.kind = "remove" /\ r.st = "err"
  /\ weekLoad' = weekLoad (-) SetToBag({r})
  /\ UNCHANGED <<weekFormVars, mealPlan, weekVars, plannerVars>>

\* The weekly-plan page shows the week's plan as loaded; the recipes page has
\* opened the recipe creator for the plan's recipe.
InitMealPlan ==
  /\ PlannerClosed
  /\ srvRecipes = {SeedRecipe}
  /\ srvEntries = SeedEntries
  /\ currentWeek = 0
  /\ loading = FALSE
  /\ mealPlan = [id |-> 1, start_date |-> 0,
                 entries |-> << [id |-> 1, recipe_id |-> 1, servings |-> 2,
                                 recipe |-> SeedRecipe] >>]
  /\ weekLoad = EmptyBag
  /\ showRecipeCreator = TRUE
  /\ editingRecipe = SeedRecipe
  /\ formData = [servings |-> <<"1">>]
  /\ selectedIngredients = SeedRecipe.ingredients
  /\ recipeReq = [st |-> "idle"]

NextMealPlan ==
  \/ \E index \in 1..MaxIngredients, q \in QuantityChoices \cup {ClearedQuantity} :
        updateIngredientQuantity(index, q)
  \/ \E v \in ServingsChoices : handleInputChange(v)
  \/ handleSubmit
  \/ ServeUpdateRecipe
  \/ ServeUpdateRecipeFail
  \/ handleSubmitThen
  \/ handleSubmitCatch
  \/ loadWeekData
  \/ \E r \in BagToSet(weekLoad) :
        \/ ServeMealPlanForWeek(r)
        \/ ServeMealPlanForWeekFail(r)
        \/ loadWeekDataThen(r)
        \/ loadWeekDataCatch(r)

SpecMealPlan == InitMealPlan /\ [][NextMealPlan]_vars

\* ---- navigation of the weekly-plan page
\* The page has mounted for week 0, whose stored plan has one entry, and
\* has started to load it.
InitWeek ==
  /\ PlannerClosed
  /\ srvRecipes = {SeedRecipe}
  /\ srvEntries = SeedEntries
  /\ currentWeek = 0
  /\ loading = TRUE
  /\ mealPlan = NoMealPlan
  /\ weekLoad = SetToBag({StartLoad(0)})
  /\ showRecipeCreator = FALSE
  /\ editingRecipe = NoRecipe
  /\ formData = [servings |-> <<"1">>]
  /\ selectedIngredients = <<>>
  /\ recipeReq = [st |-> "idle"]

NextWeek ==
  \/ \E direction \in {-1, 1} : navigateWeek(direction)
  \/ goToCurrentWeek
  \/ \E entryId \in {SeedEntries[k].id : k \in 1..Len(SeedEntries)} :
        handleRemoveMealEntry(entryId)
  \/ \E r \in BagToSet(weekLoad) :
        \/ ServeMealPlanForWeek(r)
        \/ ServeMealPlanForWeekFail(r)
        \/ loadWeekDataThen(r)
        \/ loadWeekDataCatch(r)
        \/ ServeRemoveEntry(r)
        \/ ServeRemoveEntryFail(r)
        \/ handleRemoveMealEntryThen(r)
        \/ handleRemoveMealEntryCatch(r)

SpecWeek == InitWeek /\ [][NextWeek]_vars

\* ------------------------------------------------ the diary's add-food dialog
\* AddFoodDialog of the frontend application: handleAddFood creates or gets
\* the meal of (date, meal_type) and then appends the food to it, with two
\* requests one after the other.

\* calls of handleAddFood
MaxDiaryOps == 2

\* the dates the dialog is opened for
DiaryDates == {1, 2}

\* the food selected in the dialog, values per 100 g
DiaryFoods == {[name |-> "oats", calories |-> 4, protein |-> 1, carbs |-> 2, fat |-> 1]}

\* the amount field, in grams
DiaryAmounts == {100, 250}

\* food.calories * factor with factor = grams / 100, in hundredths
calculateFoodNutrition(food, grams) ==
  [calories |-> food.calories * grams, protein |-> food.protein * grams,
   carbs |-> food.carbs * grams, fat |-> food.fat * grams]

\* a meal kept by the store from an earlier day: a breakfast with one entry
SeedMeal ==
  [id |-> 1, date |-> 1, meal_type |-> "breakfast",
   entries |-> << [food_name |-> "oats", amount |-> 100, unit |-> "g",
                   calories |-> 400, protein |-> 100, carbs |-> 200, fat |-> 100] >>]

diaryOthers == <<plannerPageVars, recipeVars>>

\* the Add button is disabled while either request is pending
handleAddFood(date, mealType, food, amount) ==
  /\ diaryReq.st = "idle"
  /\ diaryOps < MaxDiaryOps
  /\ diaryReq' = [st |-> "createSent", date |-> date, meal_type |-> mealType,
                  food |-> food, amount |-> amount]
  /\ diaryOps' = diaryOps + 1
  /\ UNCHANGED <<srvMeals, diaryOthers>>

\* POST /meals/: the backend returns the meal of (date, meal_type) and
\* creates it when there is none.  created records which of the two it was.
ServeCreateMeal ==
  /\ diaryReq.st = "createSent"
  /\ LET found == {m \in srvMeals : m.date = diaryReq.date
                                     /\ m.meal_type = diaryReq.meal_type}
         fresh == [id |-> Cardinality(srvMeals) + 1, date |-> diaryReq.date,
                   meal_type |-> diaryReq.meal_type, entries |-> <<>>]
     IN IF found # {}
        THEN /\ srvMeals' = srvMeals
             /\ diaryReq' = [st |-> "createOk", meal |-> CHOOSE m \in found : TRUE,
                             created |-> FALSE] @@ diaryReq
        ELSE /\ srvMeals' = srvMeals \cup {fresh}
             /\ diaryReq' = [st |-> "createOk", meal |-> fresh, created |-> TRUE]
                              @@ diaryReq
  /\ UNCHANGED <<diaryOps, diaryOthers>>

ServeCreateMealFail ==
  /\ diaryReq.st = "createSent"
  /\ diaryReq' = [diaryReq EXCEPT !.st = "createErr"]
  /\ UNCHANGED <<srvMeals, diaryOps, diaryOthers>>

\* after the first await: the entry is computed and posted for meal.id
handleAddFoodThen ==
  /\ diaryReq.st = "createOk"
  /\ diaryReq' = [st |-> "entrySent",
                  data |-> [food_name |-> diaryReq.food.name, amount |-> diaryReq.amount,
                            unit |-> "g"]
                           @@ calculateFoodNutrition(diaryReq.food, diaryReq.amount)]
                   @@ diaryReq
  /\ UNCHANGED <<srvMeals, diaryOps, diaryOthers>>

\* POST /meals/{mealId}/entries
ServeAddEntry ==
  /\ diaryReq.st = "entrySent"
  /\ \E m \in srvMeals :
        /\ m.id = diaryReq.meal.id
        /\ srvMeals' = (srvMeals \ {m})
                         \cup {[m EXCEPT !.entries = Append(m.entries, diaryReq.data)]}
  /\ diaryReq' = [diaryReq EXCEPT !.st = "entryOk"]
  /\ UNCHANGED <<diaryOps, diaryOthers>>

ServeAddEntryFail ==
  /\ diaryReq.st = "entrySent"
  /\ diaryReq' = [diaryReq EXCEPT !.st = "entryErr"]
  /\ UNCHANGED <<srvMeals, diaryOps, diaryOthers>>

\* after the second await: toast and resetAndClose
handleAddFoodDone ==
  /\ diaryReq.st = "entryOk"
  /\ diaryReq' = [st |-> "idle"]
  /\ UNCHANGED <<srvMeals, diaryOps, diaryOthers>>

\* the catch block of either await: a toast, nothing else
handleAddFoodCatch ==
  /\ diaryReq.st \in {"createErr", "entryErr"}
  /\ diaryReq' = [st |-> "idle"]
  /\ UNCHANGED <<srvMeals, diaryOps, diaryOthers>>

\* The diary holds the meal of an earlier day; the dialog is closed.
InitDiary ==
  /\ PlannerPageClosed
  /\ RecipesClosed
  /\ srvMeals = {SeedMeal}
  /\ diaryReq = [st |-> "idle"]
  /\ diaryOps = 0

NextDiary ==
  \/ \E date \in DiaryDates, mealType \in MealTypeChoices, food \in DiaryFoods,
        amount \in DiaryAmounts : handleAddFood(date, mealType, food, amount)
  \/ ServeCreateMeal
  \/ ServeCreateMealFail
  \/ handleAddFoodThen
  \/ ServeAddEntry
  \/ ServeAddEntryFail
  \/ handleAddFoodDone
  \/ handleAddFoodCatch

SpecDiary == InitDiary /\ [][NextDiary]_vars

\* ------------------------------------------------------------------ claims
Meals(p) == {p.meals[i] : i \in 1..Len(p.meals)}

\* the meals a regeneration of (dayIndex, mealType) is about
Selected(p, dayIndex, mealType) == {m \in Meals(p) : RegenMatches(m, dayIndex, mealType)}

Others(p, dayIndex, mealType) ==
  SelectSeq(p.meals, LAMBDA m : ~RegenMatches(m, dayIndex, mealType))

RECURSIVE SumDayTotals(_)
SumDayTotals(i) ==
  IF i \notin DayIndices THEN ZeroVec ELSE VecAdd(getDayTotals(i), SumDayTotals(i + 1))

StatusRank(st) == CASE st = "draft" -> 0 [] st = "active" -> 1 [] st = "archived" -> 2

\* C1: after every step the stored totals of the page's plan equal the
\* elementwise sum of the nutrient vectors of the meals it holds.
SumInvariant ==
  currentPlan # NoPlan => PlanTotals(currentPlan) = SumMeals(currentPlan.meals)

\* C2: removing the meal that was just added, with nothing else having
\* touched the plan, leaves the totals as they were before the add.
RemovalReversesAddition ==
  [][\A r \in BagToSet(reqs) :
        ( /\ HandleRemoveMealThen(r)
          /\ r.mealId = lastAdded.id
          /\ r.plan = currentPlan
          /\ Len(currentPlan.meals) > 0
          /\ currentPlan.meals[Len(currentPlan.meals)].id = lastAdded.id )
        => PlanTotals(currentPlan') = lastAdded.before]_vars

\* C3: once all overlapping mutations of the plan have returned, the page's
\* plan holds the meals the store holds: none of the operations was lost.
ConcurrentMutationsBothApplied ==
  (reqs = EmptyBag /\ currentPlan # NoPlan /\ SrvHas(currentPlan.id))
  => MealIds(currentPlan.meals) = MealIds(SrvGet(currentPlan.id).meals)

MutationKinds == {"addMeal", "removeMeal", "clearDay", "regenerateDay"}

MutationReturns(r) ==
  /\ r.kind \in MutationKinds
  /\ \/ HandleAddFoodToWeekPlanThen(r)
     \/ HandleRemoveMealThen(r)
     \/ HandleClearDayThen(r)
     \/ HandleRegenerateDayThen(r)
     \/ HandleRegenerateDayCatch(r)
     \/ HandlerCatch(r)

\* C4: a mutation that fails leaves meals and totals as they were; one that
\* succeeds changes the totals by exactly what it changes in the meals, so
\* no step applies only part of an operation.
AllOrNothing ==
  [][\A r \in BagToSet(reqs) :
        MutationReturns(r) =>
          /\ r.phase = "err" => currentPlan' = currentPlan
          /\ (r.phase = "ok" /\ currentPlan # NoPlan) =>
               VecSub(PlanTotals(currentPlan'), PlanTotals(currentPlan))
                 = VecSub(SumMeals(currentPlan'.meals), SumMeals(currentPlan.meals))]_vars

TotalsEqualDayTotals ==
  currentPlan # NoPlan => PlanTotals(currentPlan) = SumDayTotals(0)

\* C7: a regeneration started for (dayIndex, mealType) replaces in the store
\* only the meals of that slot, and one started for a day only the meals of
\* that day; every other meal and every other plan stays as it was.
RegenerationFrame ==
  [][\A r \in BagToSet(reqs) :
        ServeRegenerateDay(r) =>
          LET p == SrvGet(r.planId)
              q == SrvGet(r.planId)'
          IN /\ Others(q, r.dayIndex, r.mealType) = Others(p, r.dayIndex, r.mealType)
             /\ Selected(q, r.dayIndex, r.mealType) \cap Meals(p) = {}
             /\ {x \in srvPlans' : x.id # r.planId} = {x \in srvPlans : x.id # r.planId}]_vars

\* C7 witness: a regeneration of one meal type has been applied to a plan
\* that also holds a meal of another type.
RegeneratedOneMealType ==
  \E r \in BagToSet(reqs) :
     /\ r.kind = "regenerateDay" /\ r.phase = "ok" /\ r.mealType # NoMeal
     /\ Others(r.resp, r.dayIndex, r.mealType) # <<>>

\* C8: when a clear of day d returns, the page's plan has lost exactly the
\* meals of day d and its totals have dropped by their sum, in that one
\* update.
ClearDayBatch ==
  [][\A r \in BagToSet(reqs) :
        (HandleClearDayThen(r) /\ r.plan = currentPlan) =>
          /\ currentPlan'.meals
               = SelectSeq(currentPlan.meals, LAMBDA m : m.day_index # r.dayIndex)
          /\ PlanTotals(currentPlan')
               = VecSub(PlanTotals(currentPlan),
                        SumMeals(SelectSeq(currentPlan.meals,
                                           LAMBDA m : m.day_index = r.dayIndex)))]_vars

\* C9: the status of a plan only moves forward along draft, active,
\* archived, on the page and in the store.
StatusOnlyForward ==
  [][/\ (currentPlan # NoPlan /\ currentPlan' # NoPlan /\ currentPlan'.id = currentPlan.id)
          => StatusRank(currentPlan'.status) >= StatusRank(currentPlan.status)
     /\ \A p \in srvPlans : \A q \in srvPlans' :
          q.id = p.id => StatusRank(q.status) >= StatusRank(p.status)]_vars

\* C10: the store never holds more than one plan in draft status.
AtMostOneDraft == Cardinality(SrvDrafts) <= 1

\* C10 witness: a creation is under way while the store holds a draft.
CreationWhileDraftExists ==
  /\ SrvDrafts # {}
  /\ \E r \in BagToSet(reqs) : r.kind \in {"create", "createFromAi"} /\ r.phase = "sent"

\* C11: applying a plan to the diary leaves the plan as it was: when the
\* apply returns, the page's plan has the meals, totals, status and every
\* other field it had before, and the store's plan keeps its meals and
\* totals.
ApplyLeavesPlanUnaltered ==
  [][\A r \in BagToSet(reqs) :
        /\ HandleApplyToDiaryThen(r) => currentPlan' = currentPlan
        /\ ServeApplyToDiary(r) =>
             /\ SrvGet(r.planId)'.meals = SrvGet(r.planId).meals
             /\ PlanTotals(SrvGet(r.planId)') = PlanTotals(SrvGet(r.planId))]_vars

\* C18: the nutrient vector of an ad-hoc entry appended to the page's plan
\* is the dialog's nutrients times amount / 100 for a mass or volume unit and
\* times amount for servings (vectors count hundredths).
AdHocEntryVector ==
  [][\A r \in BagToSet(reqs) :
        HandleAddFoodToWeekPlanThen(r) =>
          LET m == currentPlan'.meals[Len(currentPlan'.meals)]
              k == IF r.unit = "servings" THEN 100 ELSE 1
          IN /\ r.unit \in {"g", "ml", "servings"}
             /\ m.calories = k * r.food.calories * r.amount
             /\ m.protein = k * r.food.protein * r.amount
             /\ m.carbs = k * r.food.carbs * r.amount
             /\ m.fat = k * r.food.fat * r.amount]_vars

\* C18 witness: an entry added by weight has been stored and its handler is
\* about to append it.
AdHocEntryByWeightStored ==
  \E r \in BagToSet(reqs) :
     r.kind = "addMeal" /\ r.phase = "ok" /\ r.unit = "g" /\ r.amount > 0

NoZeroNutrientEntries ==
  [][\A r \in BagToSet(reqs) :
        HandleGeneratePlanThen(r) =>
          \A i \in 1..Len(currentPlan'.meals) :
             MealVec(currentPlan'.meals[i]) # ZeroVec]_vars

\* the per-serving basis of ingredient g times quantity, in hundredths
PerServingTimes(g, quantity) ==
  [calories |-> 100 * g.calories_per_serving * quantity,
   protein |-> 100 * g.protein_per_serving * quantity,
   carbs |-> 100 * g.carbs_per_serving * quantity,
   fat |-> 100 * g.fat_per_serving * quantity,
   fiber |-> IF g.fiber_per_serving = NoNumber THEN 0
             ELSE 100 * g.fiber_per_serving * quantity]

\* the per-100g basis of ingredient g times quantity / 100, in hundredths
Per100gTimes(g, quantity) ==
  [calories |-> g.calories_per_100g * quantity,
   protein |-> g.protein_per_100g * quantity,
   carbs |-> g.carbs_per_100g * quantity,
   fat |-> g.fat_per_100g * quantity,
   fiber |-> IF g.fiber_per_100g = NoNumber THEN 0 ELSE g.fiber_per_100g * quantity]

PieceLike == {"egg", "piece", "item", "whole"}

IsPieceUsage(item) ==
  item.unit = "piece" /\ Ingredients[item.ingredient_id].serving_unit \in PieceLike

\* C13: a line whose unit is piece, of an ingredient whose native serving
\* unit is egg, piece, item or whole, is scaled as the per-serving basis
\* times the quantity, an absent fiber counting as 0.
PieceLikeScaledPerServing ==
  \A k \in 1..Len(selectedIngredients) :
     LET item == selectedIngredients[k]
     IN (Resolved(item) /\ IsPieceUsage(item)) =>
          Scaled(item) = PerServingTimes(Ingredients[item.ingredient_id], item.quantity)

\* C14: every other line is scaled as the per-100g basis times
\* quantity / 100.
OtherUnitsScaledPer100g ==
  \A k \in 1..Len(selectedIngredients) :
     LET item == selectedIngredients[k]
     IN (Resolved(item) /\ ~IsPieceUsage(item)) =>
          Scaled(item) = Per100gTimes(Ingredients[item.ingredient_id], item.quantity)

\* C14 witness: 150 g of the ingredient with 200 kcal per 100 g are scaled
\* to 300 kcal.
ScaledByWeight ==
  \E k \in 1..Len(selectedIngredients) :
     LET item == selectedIngredients[k]
     IN /\ item.ingredient_id = 6 /\ item.unit = "g" /\ item.quantity = 150
        /\ Scaled(item).calories = 30000

\* the servings field holds a whole number of at least 1
ServingsValid == ~ParseInt(formData.servings).nan /\ ParseInt(formData.servings).value >= 1

\* C15 as stated: each field of the per-serving vector times the servings
\* is exactly the sum of the scaled vectors of the lines.
ComposerExactQuotient ==
  ServingsValid =>
    LET t == Totals(selectedIngredients)
        n == calculateNutrition
        s == ParseInt(formData.servings).value
    IN /\ n.calories * 100 * s = t.calories
       /\ n.protein * 10 * s = t.protein
       /\ n.carbs * 10 * s = t.carbs
       /\ n.fat * 10 * s = t.fat
       /\ n.fiber * 10 * s = t.fiber

Abs(x) == IF x < 0 THEN 0 - x ELSE x

\* C15: each field of the per-serving vector is the sum of the scaled
\* vectors of the lines divided by the servings, rounded to the nearest
\* whole kcal for calories and to the nearest tenth of a gram for the other
\* fields.
ComposerRoundedQuotient ==
  ServingsValid =>
    LET t == Totals(selectedIngredients)
        n == calculateNutrition
        s == ParseInt(formData.servings).value
    IN /\ 2 * Abs(n.calories * 100 * s - t.calories) <= 100 * s
       /\ 2 * Abs(n.protein * 10 * s - t.protein) <= 10 * s
       /\ 2 * Abs(n.carbs * 10 * s - t.carbs) <= 10 * s
       /\ 2 * Abs(n.fat * 10 * s - t.fat) <= 10 * s
       /\ 2 * Abs(n.fiber * 10 * s - t.fiber) <= 10 * s

\* C15 witness: lines totalling 800 kcal with 4 servings show 200 kcal per
\* serving.
ComposedEightHundredByFour ==
  /\ formData.servings = <<"4">>
  /\ Totals(selectedIngredients).calories = 80000
  /\ calculateNutrition.calories = 200

\* C16: the sum of the lines is never divided by a value below 1.
ServingsAtLeastOne == servings >= 1

EntryNutritionFrozen ==
  [][\A i \in 1..Len(mealPlan.entries) : \A j \in 1..Len(mealPlan'.entries) :
        mealPlan.entries[i].id = mealPlan'.entries[j].id =>
          EntryCalories(mealPlan'.entries[j]) = EntryCalories(mealPlan.entries[i])]_vars

RecipeUnits == {"g", "ml", "piece", "cup", "tbsp", "tsp"}

LineWellFormed(item) == item.quantity > 0 /\ item.unit \in RecipeUnits

\* C21: every ingredient line has a quantity above 0 and a unit out of g,
\* ml, piece, cup, tbsp, tsp, in the form and in the data that is submitted.
LinesWellFormed ==
  /\ \A k \in 1..Len(selectedIngredients) : LineWellFormed(selectedIngredients[k])
  /\ recipeReq.st = "sent" =>
       \A k \in 1..Len(recipeReq.data.ingredients) :
          LineWellFormed(recipeReq.data.ingredients[k])

\* the sum of what the lines with an ingredient add, line by line
RECURSIVE SumOfLines(_, _)
SumOfLines(items, k) ==
  IF k = 0 THEN ZeroVec5
  ELSE IF Resolved(items[k]) THEN VecAdd5(SumOfLines(items, k - 1), Scaled(items[k]))
       ELSE SumOfLines(items, k - 1)

\* C22: a line whose ingredient is missing is skipped, always: it adds
\* nothing to any of the five fields and every other line is still summed.
UnresolvedLineSkipped ==
  Totals(selectedIngredients) = SumOfLines(selectedIngredients, Len(selectedIngredients))

\* C22 witness: the form holds a line without an ingredient followed by a
\* line with one.
UnresolvedLineBeforeResolved ==
  /\ Len(selectedIngredients) = 2
  /\ ~Resolved(selectedIngredients[1])
  /\ Resolved(selectedIngredients[2])
  /\ Totals(selectedIngredients).calories > 0

\* the sum of the per-day estimates of a proposal
RECURSIVE SumEstimates(_, _)
SumEstimates(days, k) ==
  IF k = 0 THEN ZeroVec
  ELSE VecAdd(SumEstimates(days, k - 1),
              [calories |-> days[k].estimated_calories, protein |-> days[k].estimated_protein,
               carbs |-> days[k].estimated_carbs, fat |-> days[k].estimated_fat])

\* C23: the plan createFromAiPlan stores, and returns to the page, has
\* totals equal to the sum of the estimates of all days of the proposal.
AiPlanTotalsAreSumOfDays ==
  [][\A r \in BagToSet(reqs), r2 \in BagToSet(reqs') :
       (/\ r.kind = "createFromAi" /\ r.phase = "sent"
        /\ r2.kind = "createFromAi" /\ r2.phase = "ok")
       => /\ PlanTotals(r2.resp) = SumEstimates(r.days, Len(r.days))
          /\ SrvHas(r2.resp.id)'
          /\ PlanTotals(SrvGet(r2.resp.id)') = SumEstimates(r.days, Len(r.days))]_vars

\* C23 witness: a proposal of two days with estimates has been stored as a
\* plan and returned.
AiPlanOfTwoDaysStored ==
  \E r \in BagToSet(reqs) :
     /\ r.kind = "createFromAi" /\ r.phase = "ok"
     /\ Len(r.days) = 2
     /\ r.days[1].estimated_calories > 0 /\ r.days[2].estimated_calories > 0
     /\ SrvHas(r.resp.id)

\* C24: the rollups are pure derivations: rendering the grid, which calls
\* getDayTotals and getMealsFor, changes neither the plan's meals nor its
\* totals, on the page or in the store.  The page's plan changes only when
\* a handler goes on after its request or the draft query delivers, the
\* store only when a request is served.
RollupsArePure ==
  [][/\ currentPlan' # currentPlan => (reqs' # reqs \/ draftFetch' # draftFetch)
     /\ srvPlans' # srvPlans => reqs' # reqs]_vars

\* C24 witness: a grid with meals on two days is rendered, and the rollup
\* of a day differs from the plan's meals as a whole.
RollupsOfTwoDays ==
  /\ ENABLED RenderGrid(0, "breakfast")
  /\ getDayTotals(0).calories > 0
  /\ getDayTotals(1).calories > 0
  /\ \E t \in MealTypeChoices :
        Len(getMealsFor(0, t)) > 0 /\ Len(getMealsFor(0, t)) < Len(currentPlan.meals)

\* C26: a plan is deleted outright only while it is a draft: no step, and
\* so no discard, takes a plan that is active or archived out of the store.
OnlyDraftsDeleted ==
  [][\A p \in srvPlans : p.status # "draft" => SrvHas(p.id)']_vars

\* C26 witness: the page has sent the discard of a plan that is active in
\* the store, and the request has failed with the plan still stored.
DiscardOfActivePlanRefused ==
  \E r \in BagToSet(reqs) :
     /\ r.kind = "delete" /\ r.phase = "err"
     /\ SrvHas(r.planId) /\ SrvGet(r.planId).status = "active"

\* C27: once a discard has succeeded the page stays empty until a new plan
\* is created: a plan that appears on the empty page is in the store.
DiscardedPlanStaysGone ==
  [][(currentPlan = NoPlan /\ currentPlan' # NoPlan)
       => \E p \in srvPlans' : p.id = currentPlan'.id]_vars

\* C30: the regenerating indicator is set exactly while some regenerateDay
\* request is in flight: it is not cleared while one is pending and not
\* left set when none is.
IndicatorWhileRegenerating ==
  (regeneratingDay # NoDay) <=> Pending("regenerateDay")

\* C28: when the refetch that follows the mutations of the draft is
\* delivered with the store's draft and no request is in flight any more,
\* the page's plan has the meals and the totals of the stored plan.
RefetchSettlesPlan ==
  [][(/\ draftFetch.st = "answered" /\ draftFetch'.st = "idle"
      /\ reqs' = EmptyBag
      /\ draftFetch.data # NoPlan /\ draftFetch.data = SrvGetDraft
      /\ currentPlan' # NoPlan /\ currentPlan'.id = draftFetch.data.id)
     => /\ currentPlan'.meals = draftFetch.data.meals
        /\ PlanTotals(currentPlan') = PlanTotals(draftFetch.data)]_vars

\* C29: once every pending request of the weekly-plan page has completed,
\* the meal plan shown is the one of the week that is selected.
ShownPlanIsOfCurrentWeek ==
  (weekLoad = EmptyBag /\ mealPlan # NoMealPlan) => mealPlan.start_date = currentWeek

\* C25: adding a food to the diary is all-or-nothing: when appending the
\* food has failed and the handler returns, a meal that its own first
\* request created is not left in the diary without entries.
NoEmptyMealLeftBehind ==
  [][(diaryReq.st = "entryErr" /\ diaryReq'.st = "idle" /\ diaryReq.created)
       => ~\E m \in srvMeals' : m.id = diaryReq.meal.id /\ m.entries = <<>>]_vars

====
